---- MODULE Spec2Model ----
(***************************************************************************)
(* Order-submission guard of binance-rs-async-fork:                        *)
(*   - TopN<T> / TopNEntry<T>       (src/futures/utils/top_n.rs)           *)
(*   - OrderTrackingItem            (src/futures/utils/order_tracking_item)*)
(*   - SYMBOL_ORDER_TRACKING and add_order_tracking_item                   *)
(*                                  (src/futures/utils/order_tracker.rs)   *)
(*   - EXPECTED_ORDER_REQUESTS_RULES, validate_order_request and           *)
(*     set_rules_for_symbol         (expected_order_requests/rules_map.rs) *)
(*   - FuturesAccount::place_order  (src/futures/account.rs)               *)
(*   - RulePeriod                   (expected_order_requests/rule_period)  *)
(* A BTreeSet is a strictly ascending sequence (ascending by the element   *)
(* type's Ord), a String is a sequence of character codes, a Decimal is a  *)
(* mantissa with a scale, a JSON text is the sequence of its records, a    *)
(* u64 of SpecPeriod is the sequence of its four 16-bit digits.            *)
(***************************************************************************)
EXTENDS Integers, Sequences, FiniteSets, TLC

\* ------------------------------------------------------------------ bounds
\* largest capacity a TopN is constructed with in SpecTopN
MaxCapacity == 2
\* longest snapshot text a TopN is restored from in SpecTopN
MaxSnapshotLen == 3
\* number of add_order_tracking_item calls of one run of Spec
MaxCalls == 3
\* TOP_N_ORDER_TRACKING_CAPACITY (order_tracker.rs:14, 3000) scaled down
TopNOrderTrackingCapacity == 2
\* largest number of rules in a seeded rule set and in a dynamic update
MaxRules == 2

\* ------------------------------------------------------- primitive orders
\* core::cmp::Ordering as -1 (Less), 0 (Equal), 1 (Greater)
IntCmp(a, b) == IF a < b THEN -1 ELSE IF a > b THEN 1 ELSE 0

\* Ordering::then_with
ThenWith(first, second) == IF first # 0 THEN first ELSE second

\* str::cmp: lexicographic on the bytes, a proper prefix is Less
RECURSIVE StrCmpFrom(_, _, _)
StrCmpFrom(a, b, n) ==
    IF n > Len(a) /\ n > Len(b) THEN 0
    ELSE IF n > Len(a) THEN -1
    ELSE IF n > Len(b) THEN 1
    ELSE IF a[n] # b[n] THEN IntCmp(a[n], b[n])
    ELSE StrCmpFrom(a, b, n + 1)

StrCmp(a, b) == StrCmpFrom(a, b, 1)

RECURSIVE Pow10(_)
Pow10(n) == IF n = 0 THEN 1 ELSE 10 * Pow10(n - 1)

\* rust_decimal::Decimal is [m |-> mantissa, s |-> scale], value m / 10^s.
\* Decimal::cmp compares the values: 1.0 and 1 are Equal.
DecimalCmp(a, b) == IntCmp(a.m * Pow10(b.s), b.m * Pow10(a.s))

\* OrderSide: Buy, Sell in declaration order
SideCmp(a, b) ==
    LET rank(x) == IF x = "Buy" THEN 0 ELSE 1
    IN  IntCmp(rank(a), rank(b))

\* impl Ord for OrderTrackingItem: id, then price, then size, then side
ItemCmp(a, b) ==
    ThenWith(StrCmp(a.id, b.id),
      ThenWith(DecimalCmp(a.price, b.price),
        ThenWith(DecimalCmp(a.size, b.size),
                 SideCmp(a.side, b.side))))

\* a TopNEntry ordered by its timestamp alone (the order the comment at
\* top_n.rs:17 warns against)
EntryCmpTimestampOnly(a, b) == IntCmp(a.timestamp, b.timestamp)

\* impl Ord for TopNEntry<T>: timestamp, then item
EntryCmp(a, b) ==
    ThenWith(IntCmp(a.timestamp, b.timestamp), ItemCmp(a.item, b.item))

\* ------------------------------------------------------------- BTreeSet
\* BTreeSet::contains
BTreeContains(set, e) == \E n \in 1..Len(set) : EntryCmp(set[n], e) = 0

\* BTreeSet::insert: an Equal element already in the set is kept as it is
BTreeInsert(set, e) ==
    IF BTreeContains(set, e) THEN set
    ELSE LET k == Cardinality({n \in 1..Len(set) : EntryCmp(set[n], e) = -1})
         IN  SubSeq(set, 1, k) \o <<e>> \o SubSeq(set, k + 1, Len(set))

\* BTreeSet::pop_first
BTreePopFirst(set) == IF Len(set) = 0 THEN set ELSE Tail(set)

Range(seq) == {seq[n] : n \in 1..Len(seq)}

\* --------------------------------------------------------------- TopN<T>
\* TopN::new(capacity, set): set is <<>> for None
TopNNew(capacity, set) == [set |-> set, capacity |-> capacity]

\* an insert that makes room first and looks for the duplicate afterwards
TopNInsertEvictFirst(h, e) ==
    LET room == IF Len(h.set) >= h.capacity THEN BTreePopFirst(h.set)
                ELSE h.set
    IN  [h EXCEPT !.set = BTreeInsert(room, e)]

\* TopN::insert
TopNInsert(h, e) ==
    IF BTreeContains(h.set, e) THEN h
    ELSE LET inserted == BTreeInsert(h.set, e)
         IN  IF Len(inserted) > h.capacity
             THEN [h EXCEPT !.set = BTreePopFirst(inserted)]
             ELSE [h EXCEPT !.set = inserted]

\* TopN::is_empty
TopNIsEmpty(h) == Len(h.set) = 0

\* TopN::get_all
TopNGetAll(h) == h.set

\* TopN::get_gte_timestamp
TopNGetGteTimestamp(h, timestamp) ==
    SelectSeq(h.set, LAMBDA e : e.timestamp >= timestamp)

\* ------------------------------------------------------------ serde_json
RECURSIVE Digits(_)
Digits(m) == IF m < 10 THEN <<m>> ELSE Digits(m \div 10) \o <<m % 10>>

RECURSIVE PadZeros(_, _)
PadZeros(ds, width) == IF Len(ds) >= width THEN ds ELSE PadZeros(<<0>> \o ds, width)

\* Decimal::normalize: trailing zeros of the fraction stripped
RECURSIVE DecimalNormalize(_)
DecimalNormalize(d) ==
    IF d.s > 0 /\ d.m % 10 = 0 THEN DecimalNormalize([m |-> d.m \div 10, s |-> d.s - 1])
    ELSE d

\* a serialization that writes the normalized value
DecimalToStrNormalized(d) ==
    LET n == DecimalNormalize(d)
        ds == PadZeros(Digits(n.m), n.s + 1)
    IN  [int |-> SubSeq(ds, 1, Len(ds) - n.s),
         frac |-> SubSeq(ds, Len(ds) - n.s + 1, Len(ds))]

\* Decimal as serialized (its Display), as the digits before the point and
\* the digits after it: the mantissa's digits, at least one before the
\* point, the last `scale` of them after it
DecimalToStr(d) ==
    LET ds == PadZeros(Digits(d.m), d.s + 1)
    IN  [int |-> SubSeq(ds, 1, Len(ds) - d.s),
         frac |-> SubSeq(ds, Len(ds) - d.s + 1, Len(ds))]

RECURSIVE DigitsValue(_)
DigitsValue(ds) ==
    IF Len(ds) = 0 THEN 0
    ELSE 10 * DigitsValue(SubSeq(ds, 1, Len(ds) - 1)) + ds[Len(ds)]

\* Decimal as deserialized (Decimal::from_str): the scale is the number of
\* digits after the point, trailing zeros are kept
StrToDecimal(str) ==
    [m |-> DigitsValue(str.int \o str.frac), s |-> Len(str.frac)]

\* #[serde(rename_all = "SCREAMING_SNAKE_CASE")] on OrderSide
SideToStr(side) == IF side = "Buy" THEN "BUY" ELSE "SELL"
StrToSide(str) == IF str = "BUY" THEN "Buy" ELSE "Sell"

\* OrderTrackingItem with its serde renames
ItemToJson(it) ==
    [s |-> DecimalToStr(it.size), p |-> DecimalToStr(it.price),
     sd |-> SideToStr(it.side), i |-> it.id]
JsonToItem(j) ==
    [size |-> StrToDecimal(j.s), price |-> StrToDecimal(j.p),
     side |-> StrToSide(j.sd), id |-> j.i]

\* TopNEntry with its serde renames
EntryToJson(e) == [ts |-> e.timestamp, i |-> ItemToJson(e.item)]
JsonToEntry(j) == [timestamp |-> j.ts, item |-> JsonToItem(j.i)]

\* TopN::get_set_json: the set as a JSON array, in iteration order
get_set_json(h) == [n \in 1..Len(h.set) |-> EntryToJson(h.set[n])]

\* Deserialize for BTreeSet: every element of the array is inserted
RECURSIVE JsonToBTreeSet(_)
JsonToBTreeSet(js) ==
    IF Len(js) = 0 THEN <<>>
    ELSE BTreeInsert(JsonToBTreeSet(SubSeq(js, 1, Len(js) - 1)),
                     JsonToEntry(js[Len(js)]))

\* the success path of load_top_n_from_file on the text js
TopNFromJson(js, capacity) == TopNNew(capacity, JsonToBTreeSet(js))

\* ------------------------------------------------ values of the TopN runs
D1 == [m |-> 1, s |-> 0]
D1_0 == [m |-> 10, s |-> 1]
D2 == [m |-> 2, s |-> 0]

\* items that differ in one field of the order each, and two (price 1 and
\* price 1.0) that are Equal without being identical
TopNItems ==
    { [id |-> <<1>>, price |-> D1, size |-> D1, side |-> "Buy"],
      [id |-> <<1>>, price |-> D1_0, size |-> D1, side |-> "Buy"],
      [id |-> <<1>>, price |-> D2, size |-> D1, side |-> "Buy"],
      [id |-> <<1>>, price |-> D1, size |-> D2, side |-> "Buy"],
      [id |-> <<1>>, price |-> D1, size |-> D1, side |-> "Sell"],
      [id |-> <<1, 1>>, price |-> D1, size |-> D1, side |-> "Buy"] }

TopNEntries ==
    {[timestamp |-> 1, item |-> it] : it \in TopNItems}
    \cup {[timestamp |-> 2, item |-> [id |-> <<1>>, price |-> D1, size |-> D1, side |-> "Buy"]]}

RECURSIVE SeqsUpTo(_, _)
SeqsUpTo(S, n) ==
    IF n = 0 THEN {<<>>}
    ELSE LET shorter == SeqsUpTo(S, n - 1)
         IN  shorter \cup {Append(q, x) : q \in shorter, x \in S}

\* the snapshot texts a TopN is restored from
SnapshotTexts == SeqsUpTo({EntryToJson(e) : e \in TopNEntries}, MaxSnapshotLen)

\* --------------------------------------------------------------- registry
Symbols == {"A", "B"}
Threads == {1, 2}
Shards == {0, 1}
Timestamps == {1, 2}
\* Option<Decimal>: <<>> is None, <<d>> is Some(d)
OptDecimals == {<<>>, <<D1>>}
\* the order requests given to add_order_tracking_item; the side is copied
\* into the item and decides nothing in the registry, one side is enough
OrderRequests ==
    [symbol : Symbols, quantity : OptDecimals, price : OptDecimals, side : {"Buy"}]
NoOrder == [symbol |-> "A", quantity |-> <<>>, price |-> <<>>, side |-> "Buy"]
NoTopN == [set |-> <<>>, capacity |-> -1]
NoFile == [text |-> <<>>, complete |-> FALSE, exists |-> FALSE]
NoEntry == [timestamp |-> 0, item |-> [id |-> <<>>, price |-> D1, size |-> D1, side |-> "Buy"]]
NoLocal == [order |-> NoOrder, entry |-> NoEntry, loaded |-> NoTopN, json |-> <<>>]
NoResult == [kind |-> "None", symbol |-> "A", entry |-> NoEntry]
NoPre == [memEmpty |-> TRUE, file |-> NoFile]

\* ------------------------------------------------------------ rule engine
\* rule_period.rs:5
MIN_RULE_PERIOD_DURATION_SECS == 120

\* the seconds of one unit of a RulePeriod (RulePeriod::get_duration)
UnitSecs(unit) ==
    CASE unit = "Seconds" -> 1
      [] unit = "Minutes" -> 60
      [] unit = "Hours" -> 60 * 60
      [] unit = "Days" -> 24 * 60 * 60
      [] unit = "Weeks" -> 7 * 24 * 60 * 60

\* RulePeriod::get_duration, in seconds (the magnitudes used here are far
\* from the overflow of the u64 product)
PeriodGetDuration(period) == period.n * UnitSecs(period.unit)

\* RulePeriod::get_validated_duration
get_validated_duration(period) ==
    LET duration_secs == PeriodGetDuration(period)
    IN  IF duration_secs < MIN_RULE_PERIOD_DURATION_SECS
        THEN [ok |-> FALSE, secs |-> duration_secs]
        ELSE [ok |-> TRUE, secs |-> duration_secs]

\* ExpectedOrderRequestsRule::get_duration: the same for both variants
get_duration(rule) == get_validated_duration(rule.period)

\* the bounds of an ExpectedOrderRequestsRuleSizeParams hold for a size
WithinSize(params, size) ==
    CASE params.tag = "Min" -> DecimalCmp(size, params.min) >= 0
      [] params.tag = "Max" -> DecimalCmp(size, params.max) <= 0
      [] params.tag = "MinMax" -> /\ DecimalCmp(size, params.min) >= 0
                                  /\ DecimalCmp(size, params.max) <= 0

\* ExpectedOrderRequestsRule::matches_order: a Global rule applies to every
\* order size, a PerGrid rule to the sizes of its bucket
matches_order(rule, order) ==
    rule.type = "Global" \/ WithinSize(rule.size, order.item.size)

\* ExpectedOrderRequestsRule::validate: the size bounds hold for the order
\* and the history of the rule's period window allows it; windowFails are
\* the rules whose window does not allow the order
validate(rule, order, windowFails) ==
    WithinSize(rule.size, order.item.size) /\ rule \notin windowFails

\* rules_map.rs:33
DurationAtLeast52Weeks(secs) == (((secs \div 60) \div 60) \div 24) \div 7 >= 52

\* rules_map.rs:37-38
DurationInHoursUntilTwoDays(secs) ==
    LET duration_in_hours == (secs \div 60) \div 60
    IN  duration_in_hours >= 1 /\ duration_in_hours <= 48

\* validate_rule_set_durations: "Ok" or the error it returns
validate_rule_set_durations(rules) ==
    IF \E rule \in rules : ~get_duration(rule).ok THEN "FailedDuration"
    ELSE IF ~\E rule \in rules : DurationAtLeast52Weeks(get_duration(rule).secs)
    THEN "No52Weeks"
    ELSE IF ~\E rule \in rules : DurationInHoursUntilTwoDays(get_duration(rule).secs)
    THEN "NoHoursUntilTwoDays"
    ELSE "Ok"

\* a structural check that looks at the periods only
ValidateRuleSetDurationsOnly(rules) == validate_rule_set_durations(rules)

\* validate_rule_set: "Ok" or the error it returns
validate_rule_set(rules) ==
    IF ~\E rule \in rules : rule.type = "Global" THEN "NoGlobalRules"
    ELSE validate_rule_set_durations(rules)

\* the value of a map entry that is absent
NoRuleSet == [present |-> FALSE, set |-> {}]

\* a validation that takes a symbol without an entry for one with no rules
ValidateAbsentAsEmpty(rules_entry, order, windowFails) ==
    IF validate_rule_set(rules_entry.set) # "Ok"
    THEN [kind |-> validate_rule_set(rules_entry.set), rules |-> {}]
    ELSE LET matching_rules == {rule \in rules_entry.set : matches_order(rule, order)}
         IN  IF matching_rules = {} THEN [kind |-> "NoMatchingRules", rules |-> {}]
             ELSE IF \E rule \in matching_rules : ~validate(rule, order, windowFails)
             THEN [kind |-> "RuleViolated", rules |-> {}]
             ELSE [kind |-> "Ok", rules |-> matching_rules]

\* a validation that returns the rules that validate and skips the others
ValidateBestEffort(rules_entry, order, windowFails) ==
    IF ~rules_entry.present THEN [kind |-> "NoRulesFound", rules |-> {}]
    ELSE IF validate_rule_set(rules_entry.set) # "Ok"
    THEN [kind |-> validate_rule_set(rules_entry.set), rules |-> {}]
    ELSE LET matching_rules == {rule \in rules_entry.set : matches_order(rule, order)}
         IN  IF matching_rules = {} THEN [kind |-> "NoMatchingRules", rules |-> {}]
             ELSE [kind |-> "Ok",
                   rules |-> {rule \in matching_rules : validate(rule, order, windowFails)}]

\* validate_order_request on the map entry of the symbol: the kind of the
\* result and, when Ok, validated_rules (each rule of the set at most once,
\* in the iteration order of the HashSet)
validate_order_request(rules_entry, order, windowFails) ==
    IF ~rules_entry.present THEN [kind |-> "NoRulesFound", rules |-> {}]
    ELSE IF validate_rule_set(rules_entry.set) # "Ok"
    THEN [kind |-> validate_rule_set(rules_entry.set), rules |-> {}]
    ELSE LET matching_rules == {rule \in rules_entry.set : matches_order(rule, order)}
         IN  IF matching_rules = {} THEN [kind |-> "NoMatchingRules", rules |-> {}]
             ELSE IF \E rule \in matching_rules : ~validate(rule, order, windowFails)
             THEN [kind |-> "RuleViolated", rules |-> {}]
             ELSE [kind |-> "Ok", rules |-> matching_rules]

\* an update that replaces the whole set by the new rules
SetRulesReplaceAll(rules_entry, new_rules) ==
    IF new_rules = {} THEN [kind |-> "NoRulesProvided", entry |-> rules_entry]
    ELSE [kind |-> "Ok", entry |-> [present |-> TRUE, set |-> new_rules]]

\* an update that adds the new rules to the whole existing set
SetRulesMerge(rules_entry, new_rules) ==
    IF new_rules = {} THEN [kind |-> "NoRulesProvided", entry |-> rules_entry]
    ELSE LET existing_rules == IF rules_entry.present THEN rules_entry.set ELSE {}
             global_rules == {rule \in existing_rules : rule.type = "Global"}
         IN  IF existing_rules = {}
             THEN [kind |-> "NoRulesFound",
                   entry |-> [present |-> TRUE, set |-> {}]]
             ELSE IF global_rules = {}
             THEN [kind |-> "NoGlobalRulesFound", entry |-> rules_entry]
             ELSE IF \E rule \in new_rules : rule.type = "Global"
             THEN [kind |-> "GlobalRuleSubmitted", entry |-> rules_entry]
             ELSE [kind |-> "Ok",
                   entry |-> [present |-> TRUE, set |-> existing_rules \cup new_rules]]

\* set_rules_for_symbol on the map entry of the symbol: the kind of the
\* result and the entry it leaves in the map
set_rules_for_symbol(rules_entry, new_rules) ==
    IF new_rules = {} THEN [kind |-> "NoRulesProvided", entry |-> rules_entry]
    ELSE LET existing_rules == IF rules_entry.present THEN rules_entry.set ELSE {}
             global_rules == {rule \in existing_rules : rule.type = "Global"}
         IN  IF existing_rules = {}
             THEN [kind |-> "NoRulesFound",
                   entry |-> [present |-> TRUE, set |-> {}]]
             ELSE IF global_rules = {}
             THEN [kind |-> "NoGlobalRulesFound", entry |-> rules_entry]
             ELSE IF \E rule \in new_rules : rule.type = "Global"
             THEN [kind |-> "GlobalRuleSubmitted", entry |-> rules_entry]
             ELSE [kind |-> "Ok",
                   entry |-> [present |-> TRUE, set |-> global_rules \cup new_rules]]

\* the sets of at most n elements of S
SetsUpTo(S, n) == {x \in SUBSET S : Cardinality(x) <= n}

\* the values of the rule registry: two size buckets, a long and a short
\* period
SizeMax1 == [tag |-> "Max", min |-> D1, max |-> D1]
SizeMin2 == [tag |-> "Min", min |-> D2, max |-> D2]
SizeAny == [tag |-> "MinMax", min |-> D1, max |-> D2]
RegRules ==
    {[type |-> "Global", size |-> SizeAny, period |-> [unit |-> "Weeks", n |-> 52]],
     [type |-> "Global", size |-> SizeMax1, period |-> [unit |-> "Hours", n |-> 1]],
     [type |-> "PerGrid", size |-> SizeMax1, period |-> [unit |-> "Hours", n |-> 1]],
     [type |-> "PerGrid", size |-> SizeMin2, period |-> [unit |-> "Hours", n |-> 1]],
     [type |-> "PerGrid", size |-> SizeMin2, period |-> [unit |-> "Weeks", n |-> 52]]}

\* rules whose periods lie on both sides of the limits of the structural
\* check and of the minimum period
BoundaryRules ==
    {[type |-> "PerGrid", size |-> SizeAny, period |-> p] :
        p \in {[unit |-> "Days", n |-> 363], [unit |-> "Minutes", n |-> 59],
               [unit |-> "Hours", n |-> 48], [unit |-> "Minutes", n |-> 2939],
               [unit |-> "Hours", n |-> 49], [unit |-> "Seconds", n |-> 119]}}
    \cup {[type |-> "Global", size |-> SizeAny, period |-> [unit |-> "Minutes", n |-> 59]]}
AllRules == RegRules \cup BoundaryRules

\* the entries given to validate_order_request: two sizes
RuleEntries ==
    {[timestamp |-> 1, item |-> [id |-> <<1, 1>>, price |-> D1, size |-> d, side |-> "Buy"]] :
        d \in {D1, D2}}

\* the orders given to place_order: both fields present, two sizes
PlacedOrders == [symbol : Symbols, quantity : {<<D1>>, <<D2>>}, price : {<<D1>>},
                 side : {"Buy"}]

NoPLocal == [order |-> NoOrder, entry |-> NoEntry, validated_rules |-> {}]
NoPResult == [op |-> "none", kind |-> "None", symbol |-> "A", rules |-> {},
              entry |-> NoEntry, fails |-> {}, before |-> NoRuleSet]

VARIABLES
    h,          \* SpecTopN: the TopN under test
    ever,       \* SpecTopN: every entry given to insert (or restored)
    origin,     \* SpecTopN: "new" or "restored"
    last,       \* SpecTopN: the last operation, its argument and the TopN before it
    tracking,   \* SYMBOL_ORDER_TRACKING: symbol -> TopN, NoTopN when absent
    files,      \* order_tracker_<symbol>.json
    shardOf,    \* the DashMap shard a symbol hashes to
    lock,       \* shard -> the threads holding its write lock
    pc,         \* thread -> its position in add_order_tracking_item
    local,      \* thread -> order_request, new_item_entry, loaded_top_n, as_json
    result,     \* what the last call that returned gave its caller
    ncalls,     \* number of add_order_tracking_item calls started
    pre,        \* thread -> what the call found when it took the lock
    okEntries,  \* symbol -> entries returned Ok since the process started
    seen,       \* symbol -> entries put in the history since the process started
    rules,      \* EXPECTED_ORDER_REQUESTS_RULES: symbol -> its entry
    rshardOf,   \* the shard of EXPECTED_ORDER_REQUESTS_RULES a symbol hashes to
    rlock,      \* shard -> the threads holding a Ref into it
    ppc,        \* thread -> its position in place_order
    plocal,     \* thread -> order and top_n_entry of its place_order
    presult     \* SpecRuleSet, SpecPeriod: the last call, its arguments and its result

topnVars == <<h, ever, origin, last>>
regVars == <<tracking, files, shardOf, lock, pc, local, result, ncalls,
             pre, okEntries, seen>>
ruleVars == <<rules, rshardOf, rlock, ppc, plocal, presult>>
vars == <<h, ever, origin, last, tracking, files, shardOf, lock, pc, local,
          result, ncalls, pre, okEntries, seen,
          rules, rshardOf, rlock, ppc, plocal, presult>>

\* ===================================================== SpecTopN: a TopN
\* the registry is left as the process finds it at its start
RegInit ==
    /\ tracking = [s \in Symbols |-> NoTopN]
    /\ files = [s \in Symbols |-> NoFile]
    /\ lock = [sh \in Shards |-> {}]
    /\ pc = [t \in Threads |-> "idle"]
    /\ local = [t \in Threads |-> NoLocal]
    /\ result = NoResult
    /\ ncalls = 0
    /\ pre = [t \in Threads |-> NoPre]
    /\ okEntries = [s \in Symbols |-> {}]
    /\ seen = [s \in Symbols |-> {}]

\* the rule registry and place_order are left as the process finds them
RuleInit ==
    /\ rules = [s \in Symbols |-> NoRuleSet]
    /\ rshardOf = [s \in Symbols |-> 0]
    /\ rlock = [sh \in Shards |-> {}]
    /\ ppc = [t \in Threads |-> "idle"]
    /\ plocal = [t \in Threads |-> NoPLocal]
    /\ presult = NoPResult

\* TopN::new(k, None), or load_top_n_from_file on any snapshot text with a
\* capacity chosen independently of it
TopNInit ==
    /\ last = [op |-> "new", entry |-> NoEntry, before |-> NoTopN]
    /\ \E k \in 0..MaxCapacity :
         \/ /\ h = TopNNew(k, <<>>)
            /\ origin = "new"
         \/ /\ \E js \in SnapshotTexts : h = TopNFromJson(js, k)
            /\ origin = "restored"
    /\ ever = Range(h.set)

InitTopN == TopNInit /\ RegInit /\ RuleInit /\ shardOf = [s \in Symbols |-> 0]

\* TopN::insert
Insert(e) ==
    /\ h' = TopNInsert(h, e)
    /\ ever' = ever \cup {e}
    /\ last' = [op |-> "insert", entry |-> e, before |-> h]
    /\ UNCHANGED <<origin, regVars, ruleVars>>

\* get_set_json, then load_top_n_from_file on that text with capacity k
SaveAndRestore(k) ==
    /\ h' = TopNFromJson(get_set_json(h), k)
    /\ origin' = "restored"
    /\ ever' = Range(h'.set)
    /\ last' = [op |-> "restore", entry |-> NoEntry, before |-> h]
    /\ UNCHANGED <<regVars, ruleVars>>

NextTopN ==
    \/ \E e \in TopNEntries : Insert(e)
    \/ \E k \in 0..MaxCapacity : SaveAndRestore(k)

SpecTopN == InitTopN /\ [][NextTopN]_vars

\* ------------------------------------------------- claims about a TopN
\* the value of a Decimal, whatever its scale
SameValue(a, b) == a.m * Pow10(b.s) = b.m * Pow10(a.s)

\* two items that differ in id, price, size or side
ItemsDiffer(a, b) ==
    \/ a.id # b.id
    \/ ~SameValue(a.price, b.price)
    \/ ~SameValue(a.size, b.size)
    \/ a.side # b.side

\* two entries that are the same submission
SameEntry(a, b) == a.timestamp = b.timestamp /\ ~ItemsDiffer(a.item, b.item)

\* C1: after every insert the number of entries is at most the capacity,
\* for a TopN created empty and for one restored from a snapshot with an
\* independently supplied capacity
C1_LenAtMostCapacityAfterInsert ==
    last.op = "insert" => Len(h.set) <= h.capacity

\* the number of distinct entries of S greater than e
NumGreater(S, e) ==
    Cardinality({ CHOOSE g \in S : SameEntry(g, f) :
                  f \in {x \in S : EntryCmp(x, e) = 1} })

\* C2: a TopN that started empty retains exactly the capacity-many largest
\* of the distinct entries ever inserted, and an insert below the minimum of
\* a full TopN leaves it unchanged
C2_RetainsKLargest ==
    origin = "new" =>
        /\ Range(h.set) \subseteq ever
        /\ Len(h.set) <= h.capacity
        /\ \A e \in ever :
             (\E x \in Range(h.set) : SameEntry(x, e)) <=> NumGreater(ever, e) < h.capacity
        /\ (/\ last.op = "insert"
            /\ Len(last.before.set) = h.capacity
            /\ h.capacity > 0
            /\ EntryCmp(last.entry, last.before.set[1]) = -1) => h = last.before

C2_Witness ==
    /\ origin = "new"
    /\ last.op = "insert"
    /\ h.capacity >= 2
    /\ Len(last.before.set) = h.capacity
    /\ EntryCmp(last.entry, last.before.set[1]) = -1
    /\ Cardinality(ever) > h.capacity
    /\ h = last.before

\* C3: inserting an entry equal to one already present changes nothing, at
\* capacity or not
C3_DuplicateInsertIsNoOp ==
    (last.op = "insert" /\ \E x \in Range(last.before.set) : SameEntry(x, last.entry))
        => h = last.before

C3_Witness ==
    /\ last.op = "insert"
    /\ \E x \in Range(last.before.set) : SameEntry(x, last.entry)
    /\ Len(last.before.set) = h.capacity
    /\ h.capacity >= 2
    /\ h = last.before

\* C4: entries with the same timestamp and different items are not
\* duplicates: with free capacity both are retained, and when the TopN is
\* full and the new entry shares the timestamp of the minimum, the one of
\* the two with the smaller item is the one evicted
C4_SameTimestampNotDuplicate ==
    last.op = "insert" =>
        LET b == last.before
            e == last.entry
            fresh == \A y \in Range(b.set) : ~SameEntry(y, e)
        IN  /\ \A x \in Range(b.set) :
                 (/\ x.timestamp = e.timestamp
                  /\ ItemsDiffer(x.item, e.item)
                  /\ Len(b.set) < b.capacity)
                 => /\ x \in Range(h.set)
                    /\ \E y \in Range(h.set) : y # x /\ SameEntry(y, e)
            /\ (/\ fresh
                /\ b.capacity > 0
                /\ Len(b.set) = b.capacity
                /\ b.set[1].timestamp = e.timestamp)
               => LET evicted == IF ItemCmp(e.item, b.set[1].item) = -1
                                 THEN e ELSE b.set[1]
                  IN  Range(h.set) = (Range(b.set) \cup {e}) \ {evicted}

C4_Witness ==
    /\ last.op = "insert"
    /\ h.capacity >= 2
    /\ Len(last.before.set) = h.capacity
    /\ \A y \in Range(last.before.set) : ~SameEntry(y, last.entry)
    /\ last.before.set[1].timestamp = last.entry.timestamp
    /\ ItemCmp(last.entry.item, last.before.set[1].item) = 1
    /\ last.before.set[1].item.id = last.entry.item.id
    /\ last.before.set[1] \notin Range(h.set)
    /\ last.entry \in Range(h.set)

\* C5: restoring the snapshot of a TopN with its capacity gives the same
\* TopN (entries, order, capacity), and its snapshot is the same text
C5_SnapshotRoundTrip ==
    LET restored == TopNFromJson(get_set_json(h), h.capacity)
    IN  /\ restored = h
        /\ get_set_json(restored) = get_set_json(h)

C5_Witness ==
    /\ last.op = "restore"
    /\ last.before.capacity = h.capacity
    /\ Len(h.set) >= 2
    /\ h.set[1].timestamp = h.set[2].timestamp
    /\ \E n \in 1..Len(h.set) : h.set[n].item.price.s > 0
    /\ h = last.before

\* ============================ Spec: the registry SYMBOL_ORDER_TRACKING
\* the two ways two symbols hash to the shards of the DashMap
ShardMaps == {[s \in Symbols |-> 0], [s \in Symbols |-> IF s = "A" THEN 0 ELSE 1]}

Init ==
    /\ RegInit
    /\ RuleInit
    /\ shardOf \in ShardMaps
    /\ h = NoTopN
    /\ ever = {}
    /\ origin = "new"
    /\ last = [op |-> "new", entry |-> NoEntry, before |-> NoTopN]

\* get_file_path: one file per symbol, files is indexed by the symbol
get_file_path(symbol) == symbol

\* the match arms of lines 40-47: quantity or price is None
MissingField(order) == order.quantity = <<>> \/ order.price = <<>>

\* lines 39-54: tracking_item and new_item_entry; the id is the uuid
\* followed by the timestamp
NewItemEntry(order, timestamp_nanos, uuid) ==
    [timestamp |-> timestamp_nanos,
     item |-> [size |-> order.quantity[1], price |-> order.price[1],
               side |-> order.side, id |-> <<uuid, timestamp_nanos>>]]

\* impl Default for TopN<OrderTrackingItem>
TopNDefault == TopNNew(TopNOrderTrackingCapacity, <<>>)

\* .entry(symbol).or_default() on the map
OrDefault(tr, symbol) ==
    [tr EXCEPT ![symbol] = IF @ = NoTopN THEN TopNDefault ELSE @]

\* a registry that takes the entry of the symbol before the fields are checked
TrackingOrDefaultBeforeCheck(tr, symbol) == OrDefault(tr, symbol)

\* the registry when the call returns at line 42 or 46: line 59 was not reached
TrackingAtMissingField(tr, symbol) == tr

\* a shard lock that never blocks
ShardAlwaysFree(sh) == TRUE

\* the write lock of a shard can be taken (RawRwLock of the DashMap shard)
ShardFree(sh) == lock[sh] = {}

\* a warm start that is never attempted
NeverNeedsLoad(top_n, file) == FALSE

\* line 68: top_n_ref.is_empty() && file_path.exists()
NeedsLoad(top_n, file) == TopNIsEmpty(top_n) /\ file.exists

\* a load that starts from an empty TopN when the file cannot be used
LoadOrEmpty(file, readOk, capacity) ==
    IF readOk /\ file.complete
    THEN [ok |-> TRUE, top_n |-> TopNFromJson(file.text, capacity)]
    ELSE [ok |-> TRUE, top_n |-> TopNNew(capacity, <<>>)]

\* load_top_n_from_file: Err when read_to_string fails or the text is not
\* the JSON of a set (a text cut short by an interrupted write)
load_top_n_from_file(file, readOk, capacity) ==
    IF readOk /\ file.complete
    THEN [ok |-> TRUE, top_n |-> TopNFromJson(file.text, capacity)]
    ELSE [ok |-> FALSE, top_n |-> NoTopN]

\* fs::write after File::create truncated the file and before write_all is done
TruncatedFile == [text |-> <<>>, complete |-> FALSE, exists |-> TRUE]

\* fs::write done
WrittenFile(json) == [text |-> json, complete |-> TRUE, exists |-> TRUE]

Sym(t) == local[t].order.symbol

\* the call of thread t returns: top_n_ref is dropped, the shard unlocked
Return(t, kind) ==
    /\ pc' = [pc EXCEPT ![t] = "idle"]
    /\ result' = [kind |-> kind, symbol |-> Sym(t), entry |-> local[t].entry]
    /\ local' = [local EXCEPT ![t] = NoLocal]
    /\ pre' = [pre EXCEPT ![t] = NoPre]
    /\ lock' = [lock EXCEPT ![shardOf[Sym(t)]] = @ \ {t}]

\* add_order_tracking_item, lines 35-54: the timestamp, the item, the entry
Call(t) ==
    /\ pc[t] = "idle"
    /\ ncalls < MaxCalls
    /\ ncalls' = ncalls + 1
    /\ \E order \in OrderRequests, timestamp_nanos \in Timestamps :
         IF MissingField(order)
         THEN /\ result' = [kind |-> "MissingField", symbol |-> order.symbol,
                            entry |-> NoEntry]
              /\ tracking' = TrackingAtMissingField(tracking, order.symbol)
              /\ UNCHANGED <<pc, local>>
         ELSE /\ pc' = [pc EXCEPT ![t] = "entry"]
              /\ local' = [local EXCEPT ![t] =
                             [order |-> order,
                              entry |-> NewItemEntry(order, timestamp_nanos, ncalls'),
                              loaded |-> NoTopN, json |-> <<>>]]
              /\ UNCHANGED <<result, tracking>>
    /\ UNCHANGED <<ruleVars, topnVars, files, shardOf, lock, pre, okEntries, seen>>

\* lines 59-61 and 68: SYMBOL_ORDER_TRACKING.entry(symbol).or_default(), then
\* top_n_ref.is_empty() && file_path.exists()
AcquireEntry(t) ==
    /\ pc[t] = "entry"
    /\ ShardFree(shardOf[Sym(t)])
    /\ lock' = [lock EXCEPT ![shardOf[Sym(t)]] = @ \cup {t}]
    /\ tracking' = OrDefault(tracking, Sym(t))
    /\ pre' = [pre EXCEPT ![t] = [memEmpty |-> TopNIsEmpty(tracking[Sym(t)]),
                                  file |-> files[get_file_path(Sym(t))]]]
    /\ pc' = [pc EXCEPT ![t] =
                IF NeedsLoad(tracking'[Sym(t)], files[get_file_path(Sym(t))])
                THEN "load" ELSE "insert"]
    /\ UNCHANGED <<ruleVars, topnVars, files, shardOf, local, result, ncalls,
                   okEntries, seen>>

\* lines 70-76: load_top_n_from_file; Ok: *top_n_ref = loaded_top_n, Err: return
LoadFile(t) ==
    /\ pc[t] = "load"
    /\ \E readOk \in BOOLEAN :
         LET loaded == load_top_n_from_file(files[get_file_path(Sym(t))], readOk,
                                            TopNOrderTrackingCapacity)
         IN  IF loaded.ok
             THEN /\ tracking' = [tracking EXCEPT ![Sym(t)] = loaded.top_n]
                  /\ seen' = [seen EXCEPT ![Sym(t)] = @ \cup Range(loaded.top_n.set)]
                  /\ pc' = [pc EXCEPT ![t] = "insert"]
                  /\ UNCHANGED <<result, lock, local, pre>>
             ELSE /\ Return(t, "LoadFailed")
                  /\ UNCHANGED <<tracking, seen>>
    /\ UNCHANGED <<ruleVars, topnVars, files, shardOf, ncalls, okEntries>>

\* line 82: top_n_ref.insert(new_item_entry.clone())
InsertItem(t) ==
    /\ pc[t] = "insert"
    /\ tracking' = [tracking EXCEPT ![Sym(t)] = TopNInsert(@, local[t].entry)]
    /\ seen' = [seen EXCEPT ![Sym(t)] = @ \cup {local[t].entry}]
    /\ pc' = [pc EXCEPT ![t] = "write"]
    /\ UNCHANGED <<ruleVars, topnVars, files, shardOf, lock, local, result, ncalls,
                   pre, okEntries>>

\* save_top_n_to_file, lines 104-105: top_n.get_set_json(), then fs::write
\* opens the file with truncation, or fails to open it
WriteOpen(t) ==
    /\ pc[t] = "write"
    /\ \/ /\ files' = [files EXCEPT ![get_file_path(Sym(t))] = TruncatedFile]
          /\ local' = [local EXCEPT ![t].json = get_set_json(tracking[Sym(t)])]
          /\ pc' = [pc EXCEPT ![t] = "flush"]
          /\ UNCHANGED <<result, lock, pre>>
       \/ /\ Return(t, "WriteFailed")
          /\ UNCHANGED files
    /\ UNCHANGED <<ruleVars, topnVars, tracking, shardOf, ncalls, okEntries, seen>>

\* save_top_n_to_file, line 105: fs::write writes the text, or fails while
\* writing; then lines 84-87, the call returns
WriteFlush(t) ==
    /\ pc[t] = "flush"
    /\ \/ /\ files' = [files EXCEPT ![get_file_path(Sym(t))] = WrittenFile(local[t].json)]
          /\ okEntries' = [okEntries EXCEPT ![Sym(t)] = @ \cup {local[t].entry}]
          /\ Return(t, "Ok")
       \/ /\ Return(t, "WriteFailed")
          /\ UNCHANGED <<files, okEntries>>
    /\ UNCHANGED <<ruleVars, topnVars, tracking, shardOf, ncalls, seen>>

\* the process stops at any point and starts again: the statics are new,
\* the files are what they were
Crash ==
    /\ tracking' = [s \in Symbols |-> NoTopN]
    /\ lock' = [sh \in Shards |-> {}]
    /\ pc' = [t \in Threads |-> "idle"]
    /\ local' = [t \in Threads |-> NoLocal]
    /\ result' = NoResult
    /\ pre' = [t \in Threads |-> NoPre]
    /\ okEntries' = [s \in Symbols |-> {}]
    /\ seen' = [s \in Symbols |-> {}]
    /\ UNCHANGED <<ruleVars, topnVars, files, shardOf, ncalls>>

Next ==
    \/ \E t \in Threads : Call(t)
    \/ \E t \in Threads : AcquireEntry(t)
    \/ \E t \in Threads : LoadFile(t)
    \/ \E t \in Threads : InsertItem(t)
    \/ \E t \in Threads : WriteOpen(t)
    \/ \E t \in Threads : WriteFlush(t)
    \/ Crash

Spec == Init /\ [][Next]_vars

\* ---------------------------------------------- claims about the registry
\* thread t holds the slot of its symbol: it is between lines 59 and 88
InSlot(t) == pc[t] \in {"load", "insert", "write", "flush"}

\* no thread holds the slot of symbol s
SlotIdle(s) == \A t \in Threads : ~(InSlot(t) /\ Sym(t) = s)

\* the file of a symbol exists and is not the JSON of a set
Malformed(file) == file.exists /\ ~file.complete

\* C6: a call whose order request has no quantity or no price returns the
\* MissingField error, and neither the registry nor any file changes; no
\* call gets past the field checks without both fields
C6_MissingFieldChangesNothing ==
    [][ /\ \A t \in Threads :
             (pc[t] = "idle" /\ pc'[t] = "entry")
             => (local'[t].order.quantity # <<>> /\ local'[t].order.price # <<>>)
        /\ (ncalls' # ncalls /\ pc' = pc)
           => (result'.kind = "MissingField" /\ tracking' = tracking /\ files' = files)
      ]_vars

C6_Witness ==
    /\ result.kind = "MissingField"
    /\ tracking[result.symbol] = NoTopN
    /\ \E s \in Symbols : tracking[s] # NoTopN /\ files[s].complete

\* the history a call starts from when it found the in-memory history empty
WarmStartBase(file) ==
    IF file.exists THEN TopNNew(TopNOrderTrackingCapacity, JsonToBTreeSet(file.text))
    ELSE TopNNew(TopNOrderTrackingCapacity, <<>>)

\* C7: a call that finds the in-memory history empty and a well-formed
\* snapshot file inserts into the restored snapshot; one that finds no file
\* inserts into an empty history and never takes the restore path
C7_WarmStart ==
    \A t \in Threads :
        /\ pc[t] = "load" => pre[t].file.exists
        /\ (InSlot(t) /\ pc[t] # "load" /\ pre[t].memEmpty /\ ~Malformed(pre[t].file))
           => tracking[Sym(t)] =
                IF pc[t] = "insert" THEN WarmStartBase(pre[t].file)
                ELSE TopNInsert(WarmStartBase(pre[t].file), local[t].entry)

C7_Witness ==
    \E t \in Threads :
        /\ pc[t] = "flush"
        /\ pre[t].memEmpty
        /\ pre[t].file.complete
        /\ Len(pre[t].file.text) >= 1
        /\ Len(tracking[Sym(t)].set) = Len(pre[t].file.text) + 1
        /\ local[t].entry \in Range(tracking[Sym(t)].set)

C9_SnapshotEqualsHistory ==
    \A s \in Symbols :
        (okEntries[s] # {} /\ \A t \in Threads : ~(pc[t] # "idle" /\ Sym(t) = s))
        => /\ files[s].exists
           /\ files[s].complete
           /\ JsonToBTreeSet(files[s].text) = tracking[s].set

\* C10: two calls never hold the slot of the same symbol together, and as
\* long as no more entries were put into a history than its capacity, every
\* entry returned Ok is in the history and, once the last write is complete
\* and the slot idle, in the file
C10_NoLostInsert ==
    /\ \A t1, t2 \in Threads :
         (t1 # t2 /\ InSlot(t1) /\ InSlot(t2)) => Sym(t1) # Sym(t2)
    /\ \A s \in Symbols :
         Cardinality(seen[s]) <= TopNOrderTrackingCapacity
         => /\ okEntries[s] \subseteq Range(tracking[s].set)
            /\ (files[s].complete /\ SlotIdle(s))
               => okEntries[s] \subseteq {JsonToEntry(j) : j \in Range(files[s].text)}

C10_Witness ==
    \E t1, t2 \in Threads :
        /\ pc[t1] = "flush"
        /\ pc[t2] = "entry"
        /\ Sym(t1) = Sym(t2)
        /\ ~ShardFree(shardOf[Sym(t2)])
        /\ seen[Sym(t1)] = {local[t1].entry}
        /\ local[t2].entry.timestamp < local[t1].entry.timestamp

\* a step taken by a call for symbol s
StepOfCallFor(s) ==
    \E t \in Threads :
        \/ pc[t] # "idle" /\ Sym(t) = s /\ pc'[t] # pc[t]
        \/ pc[t] = "idle" /\ pc'[t] = "entry" /\ local'[t].order.symbol = s

\* the history and the file of symbol s change only by a step of a call for
\* s (a restart of the process aside, which empties the whole registry)
FrameOfACall(s) ==
    (\/ files'[s] # files[s]
     \/ tracking'[s] # tracking[s] /\ tracking'[s] # NoTopN)
    => StepOfCallFor(s)

\* C11: the history and the file of a symbol are changed only by the steps
\* of a call for that symbol, and a call that is about to take the slot of
\* its symbol, with no call for that symbol holding it, does not have to
\* wait for a call for another symbol
C11_NoCrossSymbolInterference ==
    [][ \A s \in Symbols :
          /\ FrameOfACall(s)
          /\ \A t \in Threads :
               (pc[t] = "entry" /\ Sym(t) = s /\ SlotIdle(s))
               => ShardFree(shardOf[s])
      ]_vars

\* the entries of a completely written snapshot file
FileEntries(file) == {JsonToEntry(j) : j \in Range(file.text)}

\* C12: when a call returns Ok(entry), the entry is in the history of its
\* symbol and in the snapshot file of its symbol
C12_OkEntryIsRecorded ==
    [][ \A t \in Threads :
          (pc[t] = "flush" /\ pc'[t] = "idle" /\ result'.kind = "Ok")
          => /\ result'.entry = local[t].entry
             /\ result'.entry \in Range(tracking'[Sym(t)].set)
             /\ files'[Sym(t)].complete
             /\ result'.entry \in FileEntries(files'[Sym(t)])
      ]_vars

\* the process has just started: the statics are empty, no call was made
JustStarted ==
    /\ tracking = [s \in Symbols |-> NoTopN]
    /\ pc = [t \in Threads |-> "idle"]
    /\ result = NoResult

\* C13: whenever the process starts, every snapshot file that exists is a
\* complete snapshot, wherever the process was stopped before
C13_RestartFindsCompleteFile ==
    JustStarted => \A s \in Symbols : ~Malformed(files[s])

\* C28: after add_order_tracking_item has returned Ok(entry) to place_order,
\* that is while validate_order_request and the network call run, and until
\* another call for the symbol is made, the entry is in the history of the
\* symbol and in its snapshot file: a rejection does not take it out
C28_EntryUnderValidationIsRecorded ==
    (/\ result.kind = "Ok"
     /\ \A t \in Threads : pc[t] = "idle" \/ Sym(t) # result.symbol)
    => /\ result.entry \in Range(tracking[result.symbol].set)
       /\ files[result.symbol].complete
       /\ result.entry \in FileEntries(files[result.symbol])

\* Option: None and Some(x)
None == <<>>
Some(x) == <<x>>

\* order_tracker.rs:90-94
get_all_tracking_items(symbol) ==
    IF tracking[symbol] = NoTopN THEN None
    ELSE Some(TopNGetAll(tracking[symbol]))

\* order_tracker.rs:96-100
get_gte_timestamp(symbol, timestamp) ==
    IF tracking[symbol] = NoTopN THEN None
    ELSE Some(TopNGetGteTimestamp(tracking[symbol], timestamp))

\* C29: whenever the reads of a symbol can run (no call holds its slot),
\* get_all_tracking_items and get_gte_timestamp return None exactly when no
\* add_order_tracking_item for the symbol has returned Ok since the process
\* started: a call that failed leaves the symbol untracked
C29_NoneUntilFirstSuccess ==
    \A s \in Symbols :
        SlotIdle(s) =>
            /\ get_all_tracking_items(s) = None <=> okEntries[s] = {}
            /\ \A timestamp \in Timestamps :
                 get_gte_timestamp(s, timestamp) = None <=> okEntries[s] = {}

\* C30: a call whose snapshot write fails returns the WriteFailed error and
\* leaves the in-memory history as it was before the call: without the new
\* entry, and empty when the call found it empty and no file to restore
C30_WriteFailureRestoresHistory ==
    [][ \A t \in Threads :
          (pc[t] \in {"write", "flush"} /\ pc'[t] = "idle" /\ result'.kind # "Ok"
           /\ result'.kind # "None")
          => /\ result'.kind = "WriteFailed"
             /\ result'.entry = local[t].entry
             /\ result'.entry \notin Range(tracking'[Sym(t)].set)
             /\ (pre[t].memEmpty /\ ~pre[t].file.exists)
                => TopNIsEmpty(tracking'[Sym(t)])
      ]_vars

\* ================== SpecRules: place_order and the rule registry, threads
\* the registry as the hardcoded rules of a symbol left it at startup: any
\* set for A, none for B
InitRules ==
    /\ RegInit
    /\ shardOf \in ShardMaps
    /\ h = NoTopN
    /\ ever = {}
    /\ origin = "new"
    /\ last = [op |-> "new", entry |-> NoEntry, before |-> NoTopN]
    /\ \E seed \in SetsUpTo(RegRules, MaxRules) :
         rules = [s \in Symbols |->
                    IF s = "A" THEN [present |-> TRUE, set |-> seed] ELSE NoRuleSet]
    /\ rshardOf \in ShardMaps
    /\ rlock = [sh \in Shards |-> {}]
    /\ ppc = [t \in Threads |-> "idle"]
    /\ plocal = [t \in Threads |-> NoPLocal]
    /\ presult = NoPResult

PSym(t) == plocal[t].order.symbol

\* a guard that stays in place when it goes out of scope
KeepGuard(guards, sh, t) == guards

\* a RefMut or Ref of a DashMap goes out of scope: the shard is unlocked
DropGuard(guards, sh, t) == [guards EXCEPT ![sh] = @ \ {t}]

\* place_order returns
PReturn(t) ==
    /\ ppc' = [ppc EXCEPT ![t] = "idle"]
    /\ plocal' = [plocal EXCEPT ![t] = NoPLocal]

\* place_order, account.rs:211, into add_order_tracking_item up to
\* order_tracker.rs:59-61: the slot of the symbol is taken
PlaceOrder(t) ==
    /\ ppc[t] = "idle"
    /\ \E order \in PlacedOrders :
         /\ ShardFree(shardOf[order.symbol])
         /\ lock' = [lock EXCEPT ![shardOf[order.symbol]] = @ \cup {t}]
         /\ plocal' = [plocal EXCEPT ![t] = [order |-> order, entry |-> NoEntry,
                                             validated_rules |-> {}]]
    /\ ppc' = [ppc EXCEPT ![t] = "track"]
    /\ UNCHANGED <<topnVars, tracking, files, shardOf, pc, local, result, ncalls,
                   pre, okEntries, seen, rules, rshardOf, rlock, presult>>

\* add_order_tracking_item returns (order_tracker.rs:76, 85, 87): top_n_ref
\* is dropped; Err ends place_order (account.rs:211, the ? operator)
TrackReturn(t) ==
    /\ ppc[t] = "track"
    /\ lock' = DropGuard(lock, shardOf[PSym(t)], t)
    /\ \/ /\ ppc' = [ppc EXCEPT ![t] = "validate"]
          /\ plocal' = [plocal EXCEPT ![t].entry = NewItemEntry(plocal[t].order, 1, t)]
       \/ PReturn(t)
    /\ UNCHANGED <<topnVars, tracking, files, shardOf, pc, local, result, ncalls,
                   pre, okEntries, seen, rules, rshardOf, rlock, presult>>

\* validate_order_request, rules_map.rs:61: EXPECTED_ORDER_REQUESTS_RULES.get
RulesGet(t) ==
    /\ ppc[t] = "validate"
    /\ rlock' = [rlock EXCEPT ![rshardOf[PSym(t)]] = @ \cup {t}]
    /\ ppc' = [ppc EXCEPT ![t] = "got"]
    /\ UNCHANGED <<topnVars, regVars, rules, rshardOf, plocal, presult>>

\* an order that is sent whatever validate_order_request returned
SendAnyway(validated) == TRUE

\* account.rs:212-215: the ? on the result of validate_order_request and the
\* is_empty test on the rules it returned
ValidatedForSending(validated) ==
    validated.kind = "Ok" /\ validated.rules # {}

\* rules_map.rs:62-82: the set is cloned, the Ref dropped, the clone
\* checked; then account.rs:212-215
RulesCheck(t) ==
    /\ ppc[t] = "got"
    /\ rlock' = DropGuard(rlock, rshardOf[PSym(t)], t)
    /\ \E windowFails \in SUBSET rules[PSym(t)].set :
         LET validated == validate_order_request(rules[PSym(t)], plocal[t].entry,
                                                 windowFails)
         IN  IF ~ValidatedForSending(validated)
             THEN PReturn(t)
             ELSE /\ ppc' = [ppc EXCEPT ![t] = "post"]
                  /\ plocal' = [plocal EXCEPT ![t].validated_rules = validated.rules]
    /\ UNCHANGED <<topnVars, regVars, rules, rshardOf, presult>>

\* account.rs:216-224: the network call and its result
Post(t) ==
    /\ ppc[t] = "post"
    /\ PReturn(t)
    /\ UNCHANGED <<topnVars, regVars, rules, rshardOf, rlock, presult>>

\* a RefMut that is handed out while a Ref into the shard is held
WriteIgnoresRefs(sh) == TRUE

\* rules_map.rs:89: entry() takes the write lock of the shard, which waits
\* for every Ref into it to be dropped
ShardWritable(sh) == rlock[sh] = {}

\* set_rules_for_symbol: line 85 returns before the map is touched, the
\* RefMut of line 89 is held to the return
SetRules(t) ==
    /\ ppc[t] = "idle"
    /\ \E symbol \in Symbols, new_rules \in SetsUpTo(RegRules, MaxRules) :
         LET set == set_rules_for_symbol(rules[symbol], new_rules)
         IN  /\ new_rules # {} => ShardWritable(rshardOf[symbol])
             /\ rules' = [rules EXCEPT ![symbol] = set.entry]
    /\ UNCHANGED <<topnVars, regVars, rshardOf, rlock, ppc, plocal, presult>>

NextRules ==
    \/ \E t \in Threads : PlaceOrder(t)
    \/ \E t \in Threads : TrackReturn(t)
    \/ \E t \in Threads : RulesGet(t)
    \/ \E t \in Threads : RulesCheck(t)
    \/ \E t \in Threads : Post(t)
    \/ \E t \in Threads : SetRules(t)

SpecRules == InitRules /\ [][NextRules]_vars

\* ----------------------------------- claims about place_order and guards
\* the Global rules of a set
GlobalRules(set) == {rule \in set : rule.type = "Global"}

\* thread t holds a guard of the history registry or of the rule registry
HoldsGuard(t) ==
    \/ \E sh \in Shards : t \in lock[sh]
    \/ \E sh \in Shards : t \in rlock[sh]

\* C14: a thread holds no guard of the history registry after
\* add_order_tracking_item has returned, none of the rule registry after
\* validate_order_request has returned, and none of either during the
\* network call
C14_NoGuardAcrossNetworkCall ==
    \A t \in Threads :
        /\ ppc[t] \in {"validate", "got", "post", "idle"} =>
             \A sh \in Shards : t \notin lock[sh]
        /\ ppc[t] \in {"track", "validate", "post", "idle"} =>
             \A sh \in Shards : t \notin rlock[sh]
        /\ ppc[t] = "post" => ~HoldsGuard(t)

C14_Witness ==
    \E t1, t2 \in Threads :
        /\ ppc[t1] = "post"
        /\ plocal[t1].validated_rules # {}
        /\ ppc[t2] = "track"
        /\ PSym(t2) = PSym(t1)
        /\ t2 \in lock[shardOf[PSym(t2)]]

\* C21: no step of the program, a successful or a failed set_rules_for_symbol
\* of any thread included, changes the Global rules of a symbol: they stay
\* the ones the registry was seeded with
C21_GlobalRulesImmutable ==
    [][\A s \in Symbols :
         GlobalRules(rules'[s].set) = GlobalRules(rules[s].set)]_vars

\* an update went through on a set with Global rules (the set is larger than
\* any seed), while the other thread is inside place_order
C21_Witness ==
    /\ Cardinality(rules["A"].set) > MaxRules
    /\ GlobalRules(rules["A"].set) # {}
    /\ \E t \in Threads : ppc[t] = "validate"

\* C23: place_order (and place_order_with_key, the same statements) reaches
\* the network call only from validate_order_request, with the non-empty
\* rules that call returned for the entry; validate_order_request is entered
\* only from add_order_tracking_item, with the entry that call returned; an
\* error of either step returns with no network call
C23_SentOnlyAfterTrackAndValidate ==
    [][\A t \in Threads :
         /\ (ppc'[t] = "track" /\ ppc[t] # "track") => ppc[t] = "idle"
         /\ (ppc'[t] = "validate" /\ ppc[t] # "validate") =>
              /\ ppc[t] = "track"
              /\ plocal'[t].entry # NoEntry
         /\ (ppc'[t] = "got" /\ ppc[t] # "got") => ppc[t] = "validate"
         /\ (ppc'[t] = "post" /\ ppc[t] # "post") =>
              /\ ppc[t] = "got"
              /\ plocal[t].entry # NoEntry
              /\ plocal'[t].validated_rules # {}
              /\ \E windowFails \in SUBSET rules[PSym(t)].set :
                   validate_order_request(rules[PSym(t)], plocal[t].entry, windowFails)
                     = [kind |-> "Ok", rules |-> plocal'[t].validated_rules]]_vars

\* one thread is in the network call with its entry and its rules while the
\* other is still recording its submission
C23_Witness ==
    \E t1, t2 \in Threads :
        /\ ppc[t1] = "post"
        /\ plocal[t1].entry # NoEntry
        /\ Cardinality(plocal[t1].validated_rules) = 2
        /\ ppc[t2] = "track"

\* C26: the entry of a symbol does not change while a validate_order_request
\* holds the Ref it clones the set from, and the rules the call returns are
\* the matching rules of that one complete set, which has its Global rules:
\* the call works on the whole set of before or of after a concurrent
\* set_rules_for_symbol, never on a mixture
C26_ValidatesOneCompleteSet ==
    [][\A t \in Threads :
         /\ ppc[t] = "got" => rules'[PSym(t)] = rules[PSym(t)]
         /\ (ppc[t] = "got" /\ ppc'[t] = "post") =>
              LET set == rules[PSym(t)].set
              IN  /\ GlobalRules(set) # {}
                  /\ plocal'[t].validated_rules =
                       {rule \in set : matches_order(rule, plocal[t].entry)}]_vars

\* a call returned the rules of the set it had cloned and the registry has
\* been updated since: the rules it sends with are those of the old set
C26_Witness ==
    \E t \in Threads :
        /\ ppc[t] = "post"
        /\ ~(plocal[t].validated_rules \subseteq rules[PSym(t)].set)
        /\ GlobalRules(plocal[t].validated_rules) = GlobalRules(rules[PSym(t)].set)

\* ====== SpecGuards: the guards of the two registries, taken and dropped
\* a thread is idle, waits for a guard ("track_wait", "rules_wait",
\* "history_wait", "set_wait") or holds one ("track": the RefMut of
\* add_order_tracking_item, "rules": the Ref of validate_order_request,
\* "history": the Ref of get_gte_timestamp, "set": the RefMut of
\* set_rules_for_symbol); what the calls do to the data is in Spec,
\* SpecRules and SpecRuleSet
InitGuards ==
    /\ RegInit
    /\ RuleInit
    /\ shardOf \in ShardMaps
    /\ rshardOf \in ShardMaps
    /\ h = NoTopN
    /\ ever = {}
    /\ origin = "new"
    /\ last = [op |-> "new", entry |-> NoEntry, before |-> NoTopN]

\* the threads that hold a guard of the shard are readers in position p
OnlyReaders(guards, sh, p) == \A u \in guards[sh] : ppc[u] = p

GuardTaken(guards, sh, t) == [guards EXCEPT ![sh] = @ \cup {t}]

\* thread t moves to position p
Moves(t, p) == ppc' = [ppc EXCEPT ![t] = p]

\* place_order -> add_order_tracking_item, up to the entry() of
\* order_tracker.rs:59, which waits for the shard
RecordSubmissionCall(t) ==
    /\ ppc[t] = "idle"
    /\ \E order \in PlacedOrders :
         plocal' = [plocal EXCEPT ![t] = [order |-> order, entry |-> NoEntry,
                                          validated_rules |-> {}]]
    /\ Moves(t, "track_wait")
    /\ UNCHANGED <<topnVars, regVars, rules, rshardOf, rlock, presult>>

\* order_tracker.rs:59: the RefMut is handed out
SlotAcquire(t) ==
    /\ ppc[t] = "track_wait"
    /\ ShardFree(shardOf[PSym(t)])
    /\ lock' = GuardTaken(lock, shardOf[PSym(t)], t)
    /\ Moves(t, "track")
    /\ UNCHANGED <<topnVars, tracking, files, shardOf, pc, local, result, ncalls,
                   pre, okEntries, seen, rules, rshardOf, rlock, plocal, presult>>

\* add_order_tracking_item returns (order_tracker.rs:76, 85, 87) and drops
\* top_n_ref; with Ok place_order goes on to validate_order_request, whose
\* get (rules_map.rs:61) waits for the shard of the rules
SlotRelease(t) ==
    /\ ppc[t] = "track"
    /\ lock' = DropGuard(lock, shardOf[PSym(t)], t)
    /\ \/ /\ Moves(t, "rules_wait")
          /\ UNCHANGED plocal
       \/ PReturn(t)
    /\ UNCHANGED <<topnVars, tracking, files, shardOf, pc, local, result, ncalls,
                   pre, okEntries, seen, rules, rshardOf, rlock, presult>>

\* rules_map.rs:61: the Ref is handed out
RulesRefAcquire(t) ==
    /\ ppc[t] = "rules_wait"
    /\ OnlyReaders(rlock, rshardOf[PSym(t)], "rules")
    /\ rlock' = GuardTaken(rlock, rshardOf[PSym(t)], t)
    /\ Moves(t, "rules")
    /\ UNCHANGED <<topnVars, regVars, rules, rshardOf, plocal, presult>>

\* rules_map.rs:62-64: the set is cloned and the Ref dropped, or there is no
\* set and the call returns; validate of a matching rule then reads the
\* history of the symbol (get_gte_timestamp, order_tracker.rs:96-100)
RulesRefRelease(t) ==
    /\ ppc[t] = "rules"
    /\ rlock' = DropGuard(rlock, rshardOf[PSym(t)], t)
    /\ \/ /\ Moves(t, "history_wait")
          /\ UNCHANGED plocal
       \/ PReturn(t)
    /\ UNCHANGED <<topnVars, regVars, rules, rshardOf, presult>>

\* order_tracker.rs:97-98: the Ref of SYMBOL_ORDER_TRACKING.get is handed out
HistoryRefAcquire(t) ==
    /\ ppc[t] = "history_wait"
    /\ OnlyReaders(lock, shardOf[PSym(t)], "history")
    /\ lock' = GuardTaken(lock, shardOf[PSym(t)], t)
    /\ Moves(t, "history")
    /\ UNCHANGED <<topnVars, tracking, files, shardOf, pc, local, result, ncalls,
                   pre, okEntries, seen, rules, rshardOf, rlock, plocal, presult>>

\* order_tracker.rs:99: the entries are copied and the Ref dropped;
\* validate_order_request and place_order run to their return
HistoryRefRelease(t) ==
    /\ ppc[t] = "history"
    /\ lock' = DropGuard(lock, shardOf[PSym(t)], t)
    /\ PReturn(t)
    /\ UNCHANGED <<topnVars, tracking, files, shardOf, pc, local, result, ncalls,
                   pre, okEntries, seen, rules, rshardOf, rlock, presult>>

\* set_rules_for_symbol with rules to set, up to the entry() of
\* rules_map.rs:89, which waits for the shard
SetRulesCall(t) ==
    /\ ppc[t] = "idle"
    /\ \E symbol \in Symbols :
         plocal' = [plocal EXCEPT ![t].order.symbol = symbol]
    /\ Moves(t, "set_wait")
    /\ UNCHANGED <<topnVars, regVars, rules, rshardOf, rlock, presult>>

\* rules_map.rs:89: the RefMut is handed out
RulesRefMutAcquire(t) ==
    /\ ppc[t] = "set_wait"
    /\ ShardWritable(rshardOf[PSym(t)])
    /\ rlock' = GuardTaken(rlock, rshardOf[PSym(t)], t)
    /\ Moves(t, "set")
    /\ UNCHANGED <<topnVars, regVars, rules, rshardOf, plocal, presult>>

\* set_rules_for_symbol returns (rules_map.rs:91, 102, 112, 121)
RulesRefMutRelease(t) ==
    /\ ppc[t] = "set"
    /\ rlock' = DropGuard(rlock, rshardOf[PSym(t)], t)
    /\ PReturn(t)
    /\ UNCHANGED <<topnVars, regVars, rules, rshardOf, presult>>

NextGuards ==
    \/ \E t \in Threads : RecordSubmissionCall(t)
    \/ \E t \in Threads : SlotAcquire(t)
    \/ \E t \in Threads : SlotRelease(t)
    \/ \E t \in Threads : RulesRefAcquire(t)
    \/ \E t \in Threads : RulesRefRelease(t)
    \/ \E t \in Threads : HistoryRefAcquire(t)
    \/ \E t \in Threads : HistoryRefRelease(t)
    \/ \E t \in Threads : SetRulesCall(t)
    \/ \E t \in Threads : RulesRefMutAcquire(t)
    \/ \E t \in Threads : RulesRefMutRelease(t)

SpecGuards == InitGuards /\ [][NextGuards]_vars

\* fair scheduling: a thread that can run its next statement does so, and a
\* thread that waits for a guard gets it when the guard is free again and
\* again
FairSpecGuards ==
    /\ SpecGuards
    /\ \A t \in Threads :
         /\ WF_vars(SlotRelease(t))
         /\ WF_vars(RulesRefRelease(t))
         /\ WF_vars(HistoryRefRelease(t))
         /\ WF_vars(RulesRefMutRelease(t))
         /\ SF_vars(SlotAcquire(t))
         /\ SF_vars(RulesRefAcquire(t))
         /\ SF_vars(HistoryRefAcquire(t))
         /\ SF_vars(RulesRefMutAcquire(t))

\* ------------------------------------------------- claims about the guards
\* a thread that waits for a guard, or is in no call, holds none
NoGuardWhileWaiting ==
    \A t \in Threads :
        ppc[t] \in {"idle", "track_wait", "rules_wait", "history_wait", "set_wait"}
            => ~HoldsGuard(t)

\* C27: under fair scheduling every call of add_order_tracking_item,
\* validate_order_request and set_rules_for_symbol returns, and no thread
\* holds a guard of either registry while it waits for one: no deadlock
C27_EveryCallReturns ==
    /\ []NoGuardWhileWaiting
    /\ \A t \in Threads : (ppc[t] # "idle") ~> (ppc[t] = "idle")

\* one thread waits to read the history of a symbol whose shard the other
\* thread holds for writing, for another symbol
C27_Witness ==
    \E t1, t2 \in Threads :
        /\ ppc[t1] = "history_wait"
        /\ ppc[t2] = "track"
        /\ PSym(t1) # PSym(t2)
        /\ shardOf[PSym(t1)] = shardOf[PSym(t2)]
        /\ t2 \in lock[shardOf[PSym(t1)]]

\* =========== SpecRuleSet: the rule registry, one call after the other
\* the registry as the hardcoded rules of a symbol left it at startup: any
\* set for A, none for B
InitRuleSet ==
    /\ RegInit
    /\ shardOf = [s \in Symbols |-> 0]
    /\ h = NoTopN
    /\ ever = {}
    /\ origin = "new"
    /\ last = [op |-> "new", entry |-> NoEntry, before |-> NoTopN]
    /\ \E seed \in SetsUpTo(AllRules, MaxRules) :
         rules = [s \in Symbols |->
                    IF s = "A" THEN [present |-> TRUE, set |-> seed] ELSE NoRuleSet]
    /\ rshardOf = [s \in Symbols |-> 0]
    /\ rlock = [sh \in Shards |-> {}]
    /\ ppc = [t \in Threads |-> "idle"]
    /\ plocal = [t \in Threads |-> NoPLocal]
    /\ presult = NoPResult

\* validate_order_request(symbol, order)
ValidateOrderRequest(symbol, order) ==
    /\ \E windowFails \in SUBSET rules[symbol].set :
         LET validated == validate_order_request(rules[symbol], order, windowFails)
         IN  presult' = [op |-> "validate_order_request", kind |-> validated.kind,
                         symbol |-> symbol, rules |-> validated.rules,
                         entry |-> order, fails |-> windowFails,
                         before |-> rules[symbol]]
    /\ UNCHANGED <<topnVars, regVars, rules, rshardOf, rlock, ppc, plocal>>

\* set_rules_for_symbol(symbol, new_rules)
SetRulesForSymbol(symbol, new_rules) ==
    /\ LET set == set_rules_for_symbol(rules[symbol], new_rules)
       IN  /\ rules' = [rules EXCEPT ![symbol] = set.entry]
           /\ presult' = [op |-> "set_rules_for_symbol", kind |-> set.kind,
                          symbol |-> symbol, rules |-> new_rules,
                          entry |-> NoEntry, fails |-> {},
                          before |-> rules[symbol]]
    /\ UNCHANGED <<topnVars, regVars, rshardOf, rlock, ppc, plocal>>

NextRuleSet ==
    \/ \E symbol \in Symbols, order \in RuleEntries : ValidateOrderRequest(symbol, order)
    \/ \E symbol \in Symbols, new_rules \in SetsUpTo(RegRules, MaxRules) :
         SetRulesForSymbol(symbol, new_rules)

SpecRuleSet == InitRuleSet /\ [][NextRuleSet]_vars

\* ------------------------------------------ claims about the rule registry
\* the last call was validate_order_request
Validated == presult.op = "validate_order_request"

\* C15: validate_order_request on a symbol without an entry in the registry
\* fails with the error of the lookup, whatever the order is, and only then
C15_NoRulesConfigured ==
    Validated => (presult.kind = "NoRulesFound" <=> ~presult.before.present)

C15_Witness ==
    /\ Validated
    /\ ~rules[presult.symbol].present
    /\ presult.kind = "NoRulesFound"
    /\ presult.rules = {}

\* C16: validate_order_request on a rule set without a Global rule fails
\* with the error of the missing Global rule, whatever the periods of the
\* set are and whether or not a PerGrid rule matches and validates
C16_NoGlobalRuleIsInvalid ==
    (/\ Validated
     /\ presult.before.present
     /\ GlobalRules(presult.before.set) = {})
    => presult.kind = "NoGlobalRules" /\ presult.rules = {}

C16_Witness ==
    /\ Validated
    /\ presult.before.present
    /\ GlobalRules(presult.before.set) = {}
    /\ validate_rule_set_durations(presult.before.set) = "Ok"
    /\ \E rule \in presult.before.set :
         /\ matches_order(rule, presult.entry)
         /\ validate(rule, presult.entry, presult.fails)
    /\ presult.kind = "NoGlobalRules"

\* the periods of a set, in seconds
PeriodSecs(set) == {PeriodGetDuration(rule.period) : rule \in set}

\* a period of at least 52 weeks
LongHorizon(secs) == secs >= 52 * UnitSecs("Weeks")

\* a period of 1 hour to 48 hours inclusive
ShortHorizon(secs) == secs >= UnitSecs("Hours") /\ secs <= 48 * UnitSecs("Hours")

\* C17: for a set with a Global rule and no period under the minimum, the
\* structural check passes only if the set has a period of at least 52
\* weeks and a period of 1 hour to 48 hours; otherwise the error names the
\* missing coverage, the long horizon first
C17_CoverageRequired ==
    (/\ Validated
     /\ presult.before.present
     /\ GlobalRules(presult.before.set) # {}
     /\ \A rule \in presult.before.set : get_duration(rule).ok)
    => LET secs == PeriodSecs(presult.before.set)
           long == \E d \in secs : LongHorizon(d)
           short == \E d \in secs : ShortHorizon(d)
       IN  /\ ~long => presult.kind = "No52Weeks"
           /\ (long /\ ~short) => presult.kind = "NoHoursUntilTwoDays"

\* C18: validate_order_request returns Ok exactly when the set passes the
\* structural check, some rule matches the order and every matching rule
\* validates, and then it returns exactly the matching rules; with no
\* matching rule it fails with NoMatchingRules, with a matching rule that
\* does not validate it fails with RuleViolated and returns no rule
C18_AllOrNothing ==
    (Validated /\ presult.before.present) =>
        LET set == presult.before.set
            matched == {rule \in set : matches_order(rule, presult.entry)}
            failed == {rule \in matched : ~validate(rule, presult.entry, presult.fails)}
            structural == validate_rule_set(set) = "Ok"
        IN  /\ presult.kind = "Ok" <=> (structural /\ matched # {} /\ failed = {})
            /\ presult.kind = "Ok" => (presult.rules = matched /\ presult.rules # {})
            /\ presult.kind # "Ok" => presult.rules = {}
            /\ (structural /\ matched = {}) => presult.kind = "NoMatchingRules"
            /\ (structural /\ failed # {}) => presult.kind = "RuleViolated"

C18_Witness ==
    /\ Validated
    /\ presult.kind = "Ok"
    /\ Cardinality(presult.rules) >= 2
    /\ presult.rules # presult.before.set
    /\ presult.fails # {}

\* the last call was set_rules_for_symbol
Updated == presult.op = "set_rules_for_symbol"

\* C19: set_rules_for_symbol fails when new_rules is empty, when the symbol
\* has no entry (or an empty one), when the existing set has no Global rule
\* and when new_rules has a Global rule
C19_InvalidDynamicUpdate ==
    (/\ Updated
     /\ \/ presult.rules = {}
        \/ ~presult.before.present
        \/ GlobalRules(presult.before.set) = {}
        \/ GlobalRules(presult.rules) # {})
    => presult.kind \in {"NoRulesProvided", "NoRulesFound", "NoGlobalRulesFound",
                         "GlobalRuleSubmitted"}

C19_Witness ==
    /\ Updated
    /\ presult.before.present
    /\ GlobalRules(presult.before.set) # {}
    /\ GlobalRules(presult.rules) # {}
    /\ presult.rules # GlobalRules(presult.rules)
    /\ presult.kind = "GlobalRuleSubmitted"

\* C20: after a set_rules_for_symbol that returned Ok the set of the symbol
\* is the Global rules it had before together with new_rules, and no other
\* rule
C20_GlobalsPlusNewRules ==
    (Updated /\ presult.kind = "Ok") =>
        /\ rules[presult.symbol] =
             [present |-> TRUE,
              set |-> GlobalRules(presult.before.set) \cup presult.rules]
        /\ \A rule \in presult.before.set :
             (rule.type = "PerGrid" /\ rule \notin presult.rules)
             => rule \notin rules[presult.symbol].set

C20_Witness ==
    /\ Updated
    /\ presult.kind = "Ok"
    /\ \E rule \in presult.before.set : rule.type = "PerGrid" /\ rule \notin presult.rules
    /\ GlobalRules(rules[presult.symbol].set) # {}
    /\ presult.rules \subseteq rules[presult.symbol].set

\* C22: a set_rules_for_symbol that fails leaves the entry of its symbol as
\* it was; a symbol that had no entry has none afterwards, so that a later
\* validate_order_request for it (B is never seeded, and no update of a
\* symbol without rules succeeds) still fails with the error of the lookup
C22_FailedUpdateLeavesRegistry ==
    /\ (Updated /\ presult.kind # "Ok") => rules[presult.symbol] = presult.before
    /\ (Validated /\ presult.symbol = "B") => presult.kind = "NoRulesFound"

\* ================= SpecPeriod: the arithmetic of RulePeriod, in u64 and u128
\* a u64 is written as four digits of 16 bits, the lowest first, a u128 as
\* eight
Limb == 65536
U64Width == 4
U128Width == 8

\* the u64 or u128 of a number below 2^31
Nat2Limbs(n, w) ==
    [i \in 1..w |-> IF i = 1 THEN n % Limb ELSE IF i = 2 THEN n \div Limb ELSE 0]

U64(n) == Nat2Limbs(n, U64Width)

\* u64 as u128, and u128 as u64 (the cast keeps the low 64 bits)
Widen(a) == [i \in 1..U128Width |-> IF i <= Len(a) THEN a[i] ELSE 0]
AsU64(a) == [i \in 1..U64Width |-> a[i]]

\* the carry into digit i of a * k, for a factor k below 2^15
RECURSIVE MulCarry(_, _, _)
MulCarry(a, k, i) ==
    IF i = 1 THEN 0 ELSE (a[i - 1] * k + MulCarry(a, k, i - 1)) \div Limb

\* a * k in the width of a: the wrapped product and whether it overflowed
overflowing_mul(a, k) ==
    [v |-> [i \in 1..Len(a) |-> (a[i] * k + MulCarry(a, k, i)) % Limb],
     overflow |-> MulCarry(a, k, Len(a) + 1) # 0]

\* the borrow into digit i of a - b
RECURSIVE SubBorrow(_, _, _)
SubBorrow(a, b, i) ==
    IF i = 1 THEN 0
    ELSE IF a[i - 1] - b[i - 1] - SubBorrow(a, b, i - 1) < 0 THEN 1 ELSE 0

\* a - b in the width of a: the wrapped difference and whether it underflowed
overflowing_sub(a, b) ==
    [v |-> [i \in 1..Len(a) |-> (a[i] - b[i] - SubBorrow(a, b, i) + Limb) % Limb],
     overflow |-> SubBorrow(a, b, Len(a) + 1) = 1]

\* a < b
LimbsLess(a, b) == overflowing_sub(a, b).overflow

\* a * f1 * f2 * ..., multiplied from the left as the expression is written
RECURSIVE MulAll(_, _)
MulAll(a, factors) ==
    IF factors = <<>> THEN [v |-> a, overflow |-> FALSE]
    ELSE LET first == overflowing_mul(a, Head(factors))
             rest == MulAll(first.v, Tail(factors))
         IN  [v |-> rest.v, overflow |-> first.overflow \/ rest.overflow]

\* the factors of each variant of RulePeriod, in the order of the source
UnitFactors(unit) ==
    CASE unit = "Seconds" -> <<>>
      [] unit = "Minutes" -> <<60>>
      [] unit = "Hours" -> <<60, 60>>
      [] unit = "Days" -> <<24, 60, 60>>
      [] unit = "Weeks" -> <<7, 24, 60, 60>>

\* RulePeriod::get_duration: the seconds as the u64 products give them
RulePeriodGetDuration(period) == MulAll(period.n, UnitFactors(period.unit))

\* a panic of the arithmetic (a build with overflow checks)
Panicked == [kind |-> "Panic", value |-> U64(0)]

\* RulePeriod::get_validated_duration: a product that overflows panics in a
\* build with overflow checks and wraps in one without
RulePeriodGetValidatedDuration(period, overflow_checks) ==
    LET duration == RulePeriodGetDuration(period)
    IN  IF duration.overflow /\ overflow_checks THEN Panicked
        ELSE IF LimbsLess(duration.v, U64(MIN_RULE_PERIOD_DURATION_SECS))
        THEN [kind |-> "Err", value |-> duration.v]
        ELSE [kind |-> "Ok", value |-> duration.v]

\* Duration::as_nanos of a Duration of whole seconds: a u128
as_nanos(secs) == MulAll(Widen(secs), <<1000, 1000, 1000>>).v

\* RulePeriod::get_min_nanos_timestamp
get_min_nanos_timestamp(period, now_nanos, overflow_checks) ==
    LET duration == RulePeriodGetValidatedDuration(period, overflow_checks)
    IN  IF duration.kind # "Ok" THEN duration
        ELSE LET selected_nanos == AsU64(as_nanos(duration.value))
                 min_nanos == overflowing_sub(now_nanos, selected_nanos)
             IN  IF min_nanos.overflow /\ overflow_checks THEN Panicked
                 ELSE [kind |-> "Ok", value |-> min_nanos.v]

\* the magnitudes of a period: around the minimum of 120 seconds, the
\* required 52 weeks, 3000 (as weeks, more than the time since 1970),
\* 18446744074 (as seconds, more than 2^64 nanoseconds), 307445734561825861
\* (as minutes, 2^64 + 44 seconds) and u64::MAX
Magnitudes ==
    {U64(0), U64(2), U64(119), U64(120), U64(52), U64(3000),
     <<64010, 19330, 4, 0>>, <<17477, 17476, 17476, 1092>>,
     <<65535, 65535, 65535, 65535>>}

Units == {"Seconds", "Minutes", "Hours", "Days", "Weeks"}

Periods == [unit : Units, n : Magnitudes]

\* the current time in nanoseconds: 0, 120 seconds, 2026-11-03 and u64::MAX
NowNanos ==
    {U64(0), <<45056, 61582, 27, 0>>, <<0, 40552, 24551, 6372>>,
     <<65535, 65535, 65535, 65535>>}

\* a period, a time and a build, with no call made yet
InitPeriod ==
    /\ RegInit
    /\ shardOf = [s \in Symbols |-> 0]
    /\ h = NoTopN
    /\ ever = {}
    /\ origin = "new"
    /\ last = [op |-> "new", entry |-> NoEntry, before |-> NoTopN]
    /\ rules = [s \in Symbols |-> NoRuleSet]
    /\ rshardOf = [s \in Symbols |-> 0]
    /\ rlock = [sh \in Shards |-> {}]
    /\ ppc = [t \in Threads |-> "idle"]
    /\ plocal = [t \in Threads |-> NoPLocal]
    /\ \E period \in Periods, now_nanos \in NowNanos, overflow_checks \in BOOLEAN :
         presult = [op |-> "none", period |-> period, now_nanos |-> now_nanos,
                    overflow_checks |-> overflow_checks,
                    kind |-> "None", value |-> U64(0)]

\* period.get_validated_duration()
GetValidatedDuration ==
    /\ LET duration == RulePeriodGetValidatedDuration(presult.period,
                                                      presult.overflow_checks)
       IN  presult' = [presult EXCEPT !.op = "get_validated_duration",
                                      !.kind = duration.kind,
                                      !.value = duration.value]
    /\ UNCHANGED <<topnVars, regVars, rules, rshardOf, rlock, ppc, plocal>>

\* period.get_min_nanos_timestamp(now_nanos)
GetMinNanosTimestamp ==
    /\ LET min_nanos == get_min_nanos_timestamp(presult.period, presult.now_nanos,
                                                presult.overflow_checks)
       IN  presult' = [presult EXCEPT !.op = "get_min_nanos_timestamp",
                                      !.kind = min_nanos.kind,
                                      !.value = min_nanos.value]
    /\ UNCHANGED <<topnVars, regVars, rules, rshardOf, rlock, ppc, plocal>>

NextPeriod ==
    \/ GetValidatedDuration
    \/ GetMinNanosTimestamp

SpecPeriod == InitPeriod /\ [][NextPeriod]_vars

\* ------------------------------------------------- claims about RulePeriod
\* the period in seconds and in nanoseconds, as numbers of 128 bits: no
\* product of a u64 by the factors of a unit and by 10^9 reaches 2^128
PeriodSeconds(period) == MulAll(Widen(period.n), UnitFactors(period.unit)).v
PeriodNanos(period) == MulAll(PeriodSeconds(period), <<1000, 1000, 1000>>).v

\* the period is shorter than 120 seconds
BelowMinimum(period) ==
    LimbsLess(PeriodSeconds(period), Widen(U64(MIN_RULE_PERIOD_DURATION_SECS)))

\* C24: get_validated_duration fails exactly when the period in seconds is
\* below 120
C24_RejectedExactlyBelowMinimum ==
    presult.op = "get_validated_duration" =>
        (presult.kind = "Err" <=> BelowMinimum(presult.period))

\* C25: for a period of at least 120 seconds and any now_nanos,
\* get_min_nanos_timestamp returns now_nanos minus the period in
\* nanoseconds, which is not greater than now_nanos: no product and no
\* conversion overflows and the subtraction does not underflow
C25_MinNanosIsNowMinusPeriod ==
    (/\ presult.op = "get_min_nanos_timestamp"
     /\ ~BelowMinimum(presult.period)) =>
        LET exact == overflowing_sub(Widen(presult.now_nanos),
                                     PeriodNanos(presult.period))
        IN  /\ presult.kind = "Ok"
            /\ ~exact.overflow
            /\ Widen(presult.value) = exact.v
            /\ ~LimbsLess(presult.now_nanos, presult.value)

====
